---------------------------- MODULE Spec2Model ----------------------------
(***************************************************************************)
(* Support Ticket Management Agent (agentic_ai.py).                        *)
(*                                                                         *)
(* The program loads tickets.json into the global list `tickets`, then     *)
(* main() reads lines from the user; every line that is not "exit"/"quit"  *)
(* goes to process_query, which dispatches on substring tests and regular  *)
(* expressions, and a reassignment rewrites tickets.json in full.          *)
(*                                                                         *)
(* Strings are sequences of one-character strings, so that lower(),        *)
(* strip(), capitalize(), `in`, re.search, int() and str() are computed    *)
(* character by character as Python computes them.  Python integers are    *)
(* unbounded and are modelled by TLA+ integers.                            *)
(*                                                                         *)
(* Scope: the characters are ASCII; the lines are short, so every int()    *)
(* is far below the interpreter's limit on the digits of a converted       *)
(* string; tickets.json holds objects with the five keys of a ticket and   *)
(* distinct ticket ids; a write of tickets.json fails, if it does, in      *)
(* open(), which leaves the file as it was.                                *)
(***************************************************************************)
EXTENDS Integers, Sequences, FiniteSets, TLC

VARIABLES
    file,       \* content of tickets.json: a sequence of JSON objects
    tickets,    \* the global list `tickets` (agentic_ai.py:24)
    loaded,     \* the value of `tickets` right after the load (history)
    state,      \* main(): "Running", "Terminated" (loop left by break), "Crashed"
    raised,     \* exception raised in the last step: "none", "OSError", "EOFError"
    query,      \* the last line returned by input()
    rule,       \* the case of process_query that answered the last line (0: none)
    response,   \* the last string printed after "Support Ticket Agent:"
    farewell,   \* whether the goodbye line was printed
    wrote       \* whether the last step opened tickets.json for writing and dumped it

vars == <<file, tickets, loaded, state, raised, query, rule, response, farewell, wrote>>

-----------------------------------------------------------------------------
(* Bounds of the model. *)

\* Largest number of tickets in tickets.json.
MaxTickets == 2

-----------------------------------------------------------------------------
(* Characters and the str methods the program calls. *)

ascii_lowercase == <<"a","b","c","d","e","f","g","h","i","j","k","l","m","n","o","p","q","r","s","t","u","v","w","x","y","z">>
ascii_uppercase == <<"A","B","C","D","E","F","G","H","I","J","K","L","M","N","O","P","Q","R","S","T","U","V","W","X","Y","Z">>
digits == <<"0","1","2","3","4","5","6","7","8","9">>

Range(s) == {s[i] : i \in DOMAIN s}

Min(S) == CHOOSE x \in S : \A y \in S : x <= y

\* str.isspace() for the characters of the model.
whitespace == {" ", "\t"}

\* The class \d of re.
DigitClass == Range(digits)

\* The class \w of re.
WordClass == Range(ascii_lowercase) \cup Range(ascii_uppercase) \cup DigitClass \cup {"_"}

IndexIn(c, s) == CHOOSE i \in DOMAIN s : s[i] = c

LowerClass == Range(ascii_lowercase)

UpperClass == Range(ascii_uppercase)

\* str.lower() and str.upper() of one character.
char_lower(c) == IF c \in UpperClass THEN ascii_lowercase[IndexIn(c, ascii_uppercase)] ELSE c

char_upper(c) == IF c \in LowerClass THEN ascii_uppercase[IndexIn(c, ascii_lowercase)] ELSE c

\* str.lower()
str_lower(s) == [i \in DOMAIN s |-> char_lower(s[i])]

\* str.capitalize(): first character upper-cased, the rest lower-cased.
str_capitalize(s) == [i \in DOMAIN s |-> IF i = 1 THEN char_upper(s[i]) ELSE char_lower(s[i])]

\* str.strip(): leading and trailing whitespace removed.
str_strip(s) ==
    LET keep == {i \in DOMAIN s : s[i] \notin whitespace}
    IN  IF keep = {} THEN <<>>
        ELSE SubSeq(s, Min(keep), CHOOSE j \in keep : \A k \in keep : k <= j)

\* s[i:].startswith(lit), positions counted from 1.
StartsWithAt(s, i, lit) ==
    /\ i >= 1
    /\ i + Len(lit) - 1 <= Len(s)
    /\ SubSeq(s, i, i + Len(lit) - 1) = lit

\* `sub in s`
str_contains(sub, s) == \E i \in 1..(Len(s) + 1) : StartsWithAt(s, i, sub)

\* The last position of the longest run of characters of class C that starts
\* at position i (i - 1 when s[i] is not in C): what a greedy C+ consumes.
RunEnd(s, i, C) ==
    LET stops == {j \in i..Len(s) : s[j] \notin C}
    IN  IF stops = {} THEN Len(s) ELSE Min(stops) - 1

\* int() of a string of decimal digits.
RECURSIVE str_to_int(_)
str_to_int(ds) ==
    IF ds = <<>> THEN 0
    ELSE 10 * str_to_int(SubSeq(ds, 1, Len(ds) - 1)) + (IndexIn(ds[Len(ds)], digits) - 1)

\* str() of a non-negative integer, as an f-string formats it.
RECURSIVE int_to_str(_)
int_to_str(n) ==
    IF n < 10 THEN <<digits[n + 1]>>
    ELSE int_to_str(n \div 10) \o <<digits[(n % 10) + 1]>>

\* "\n".join(lines)
RECURSIVE str_join(_)
str_join(lines) ==
    IF lines = <<>> THEN <<>>
    ELSE IF Len(lines) = 1 THEN lines[1]
    ELSE lines[1] \o <<"\n">> \o str_join(Tail(lines))

-----------------------------------------------------------------------------
(* tickets.json: a JSON array of objects.  An object is the sequence of its *)
(* <<key, value text>> pairs in file order; a number's text is its digits. *)

json_object(ticket_id, title, description, status, assigned_to) ==
    << <<"ticket_id", ticket_id>>, <<"title", title>>, <<"description", description>>,
       <<"status", status>>, <<"assigned_to", assigned_to>> >>

\* The value json.load keeps for a key: the last pair with that key.
json_value(obj, key) ==
    obj[CHOOSE i \in DOMAIN obj : obj[i][1] = key /\ \A j \in DOMAIN obj : obj[j][1] = key => j <= i][2]

\* json.load(file): each object becomes a dict, the number is parsed.
json_load(text) ==
    [i \in DOMAIN text |->
        [ticket_id   |-> str_to_int(json_value(text[i], "ticket_id")),
         title       |-> json_value(text[i], "title"),
         description |-> json_value(text[i], "description"),
         status      |-> json_value(text[i], "status"),
         assigned_to |-> json_value(text[i], "assigned_to")]]

\* json.dump(tickets, file, indent=4): every dict of the list, keys in order.
json_dump(tks) ==
    [i \in DOMAIN tks |->
        json_object(int_to_str(tks[i].ticket_id), tks[i].title, tks[i].description,
                    tks[i].status, tks[i].assigned_to)]

-----------------------------------------------------------------------------
(* Helper functions of the ticket store. *)

\* A faulty get_ticket_by_id: the loop returns None as soon as the first
\* ticket does not match.
get_ticket_by_id_first_only(tks, ticket_id) ==
    IF tks # <<>> /\ tks[1].ticket_id = ticket_id THEN 1 ELSE 0

\* The position in `tickets` of the dict returned, 0 for None.
get_ticket_by_id(tks, ticket_id) ==
    LET hits == {i \in DOMAIN tks : tks[i].ticket_id = ticket_id}
    IN  IF hits = {} THEN 0 ELSE Min(hits)

\* A faulty list_tickets_by_status: the statuses are compared as they are.
list_tickets_by_status_exact(tks, status) ==
    SelectSeq(tks, LAMBDA ticket : ticket.status = status)

list_tickets_by_status(tks, status) ==
    SelectSeq(tks, LAMBDA ticket : str_lower(ticket.status) = str_lower(status))

\* A faulty update_ticket_assignment: the assignment is made for every ticket
\* once the id was found.
update_ticket_assignment_all(tks, fl, ticket_id, assigned_to, writable) ==
    LET hits    == {i \in DOMAIN tks : tks[i].ticket_id = ticket_id}
        i       == IF hits = {} THEN 0 ELSE Min(hits)
        updated == [k \in DOMAIN tks |-> [tks[k] EXCEPT !.assigned_to = assigned_to]]
    IN  IF i = 0
        THEN [tickets |-> tks, file |-> fl, wrote |-> FALSE, raised |-> "none", ret |-> 0]
        ELSE IF ~writable
        THEN [tickets |-> updated, file |-> fl, wrote |-> FALSE, raised |-> "OSError", ret |-> 0]
        ELSE [tickets |-> updated, file |-> json_dump(updated), wrote |-> TRUE,
              raised |-> "none", ret |-> i]

\* A faulty update_ticket_assignment: the file is dumped from the list as it
\* was before the assignment.
update_ticket_assignment_stale(tks, fl, ticket_id, assigned_to, writable) ==
    LET hits    == {i \in DOMAIN tks : tks[i].ticket_id = ticket_id}
        i       == IF hits = {} THEN 0 ELSE Min(hits)
        updated == IF i = 0 THEN tks ELSE [tks EXCEPT ![i].assigned_to = assigned_to]
    IN  IF i = 0
        THEN [tickets |-> tks, file |-> fl, wrote |-> FALSE, raised |-> "none", ret |-> 0]
        ELSE IF ~writable
        THEN [tickets |-> updated, file |-> fl, wrote |-> FALSE, raised |-> "OSError", ret |-> 0]
        ELSE [tickets |-> updated, file |-> json_dump(tks), wrote |-> TRUE,
              raised |-> "none", ret |-> i]

\* The state after the call: the list, the file, whether the file was dumped,
\* the exception raised ("none" when the call returned) and the position of the
\* dict returned (0 for None).  `writable` is whether open('tickets.json', 'w')
\* succeeds; when it does not, open raises OSError after the dict was changed.
update_ticket_assignment(tks, fl, ticket_id, assigned_to, writable) ==
    LET hits    == {i \in DOMAIN tks : tks[i].ticket_id = ticket_id}
        i       == IF hits = {} THEN 0 ELSE Min(hits)
        updated == IF i = 0 THEN tks ELSE [tks EXCEPT ![i].assigned_to = assigned_to]
    IN  IF i = 0
        THEN [tickets |-> tks, file |-> fl, wrote |-> FALSE, raised |-> "none", ret |-> 0]
        ELSE IF ~writable
        THEN [tickets |-> updated, file |-> fl, wrote |-> FALSE, raised |-> "OSError", ret |-> 0]
        ELSE [tickets |-> updated, file |-> json_dump(updated), wrote |-> TRUE,
              raised |-> "none", ret |-> i]

-----------------------------------------------------------------------------
(* The regular expressions of process_query.  A match is the tuple of its  *)
(* groups, <<>> is None.  re.search returns the match at the leftmost      *)
(* position that has one.                                                  *)

\* re.search(r'open|closed|pending', query): the alternatives are tried in
\* order at each position; the match is group(0).
status_match_at(q, i) ==
    IF StartsWithAt(q, i, <<"o","p","e","n">>) THEN <<"o","p","e","n">>
    ELSE IF StartsWithAt(q, i, <<"c","l","o","s","e","d">>) THEN <<"c","l","o","s","e","d">>
    ELSE IF StartsWithAt(q, i, <<"p","e","n","d","i","n","g">>) THEN <<"p","e","n","d","i","n","g">>
    ELSE <<>>

re_search_status(q) ==
    LET hits == {i \in DOMAIN q : status_match_at(q, i) # <<>>}
    IN  IF hits = {} THEN <<>> ELSE status_match_at(q, Min(hits))

\* r"assign (?:ticket )?(\d+)(?: ticket)? to (\w+)" matched at position i.
\* Neither optional group can be skipped once its text is there (the text
\* that would have to follow starts with a digit, resp. with " to "), and a
\* shorter run of digits is followed by a digit, not a space: the greedy
\* choices are the only ones that can match.
assign_match_at(q, i) ==
    LET p0 == i + Len(<<"a","s","s","i","g","n"," ">>)
        p1 == IF StartsWithAt(q, p0, <<"t","i","c","k","e","t"," ">>) THEN p0 + Len(<<"t","i","c","k","e","t"," ">>) ELSE p0
        d  == RunEnd(q, p1, DigitClass)
        p2 == d + 1
        p3 == IF StartsWithAt(q, p2, <<" ","t","i","c","k","e","t">>) THEN p2 + Len(<<" ","t","i","c","k","e","t">>) ELSE p2
        p4 == p3 + Len(<<" ","t","o"," ">>)
        w  == RunEnd(q, p4, WordClass)
    IN  IF /\ StartsWithAt(q, i, <<"a","s","s","i","g","n"," ">>)
           /\ d >= p1
           /\ StartsWithAt(q, p3, <<" ","t","o"," ">>)
           /\ w >= p4
        THEN <<SubSeq(q, p1, d), SubSeq(q, p4, w)>>
        ELSE <<>>

re_search_assign(q) ==
    LET hits == {i \in DOMAIN q : assign_match_at(q, i) # <<>>}
    IN  IF hits = {} THEN <<>> ELSE assign_match_at(q, Min(hits))

\* r"who (?:is working on|is assigned to) ticket (\d+)" matched at position i.
who_match_at(q, i) ==
    LET p0 == i + Len(<<"w","h","o"," ">>)
        p1 == IF StartsWithAt(q, p0, <<"i","s"," ","w","o","r","k","i","n","g"," ","o","n">>) THEN p0 + Len(<<"i","s"," ","w","o","r","k","i","n","g"," ","o","n">>)
              ELSE IF StartsWithAt(q, p0, <<"i","s"," ","a","s","s","i","g","n","e","d"," ","t","o">>) THEN p0 + Len(<<"i","s"," ","a","s","s","i","g","n","e","d"," ","t","o">>)
              ELSE 0
        p2 == p1 + Len(<<" ","t","i","c","k","e","t"," ">>)
        d  == RunEnd(q, p2, DigitClass)
    IN  IF /\ StartsWithAt(q, i, <<"w","h","o"," ">>)
           /\ p1 > 0
           /\ StartsWithAt(q, p1, <<" ","t","i","c","k","e","t"," ">>)
           /\ d >= p2
        THEN <<SubSeq(q, p2, d)>>
        ELSE <<>>

re_search_who(q) ==
    LET hits == {i \in DOMAIN q : who_match_at(q, i) # <<>>}
    IN  IF hits = {} THEN <<>> ELSE who_match_at(q, Min(hits))

\* r"summarize ticket (\d+)" matched at position i.
summary_match_at(q, i) ==
    LET p0 == i + Len(<<"s","u","m","m","a","r","i","z","e"," ","t","i","c","k","e","t"," ">>)
        d  == RunEnd(q, p0, DigitClass)
    IN  IF StartsWithAt(q, i, <<"s","u","m","m","a","r","i","z","e"," ","t","i","c","k","e","t"," ">>) /\ d >= p0
        THEN <<SubSeq(q, p0, d)>>
        ELSE <<>>

re_search_summary(q) ==
    LET hits == {i \in DOMAIN q : summary_match_at(q, i) # <<>>}
    IN  IF hits = {} THEN <<>> ELSE summary_match_at(q, Min(hits))

-----------------------------------------------------------------------------
(* The response strings of process_query (its f-strings). *)

NoTicketsMsg(status) == <<"N","o"," ","t","i","c","k","e","t","s"," ","f","o","u","n","d"," ","w","i","t","h"," ","s","t","a","t","u","s"," ","'">> \o status \o <<"'",".">>

TicketLine(t) ==
    <<"T","i","c","k","e","t","s"," ">> \o int_to_str(t.ticket_id) \o <<":"," ">> \o t.title
        \o <<" ","(","A","s","s","i","g","n","e","d"," ","t","o"," ">> \o t.assigned_to \o <<")">>

ValidStatusMsg == <<"P","l","e","a","s","e"," ","s","p","e","c","i","f","y"," ","a"," ","v","a","l","i","d"," ","t","i","c","k","e","t"," ","s","t","a","t","u","s"," ","(","o","p","e","n",","," ","c","l","o","s","e","d",","," ","o","r"," ","p","e","n","d","i","n","g",")",".">>

NotFoundMsg(ticket_id) == <<"T","i","c","k","e","t"," ">> \o int_to_str(ticket_id) \o <<" ","n","o","t"," ","f","o","u","n","d",".">>

AlreadyAssignedMsg(ticket_id, new_assignee) ==
    <<"T","i","c","k","e","t"," ">> \o int_to_str(ticket_id) \o <<" ","i","s"," ","a","l","r","e","a","d","y"," ","a","s","s","i","g","n","e","d"," ","t","o"," ">> \o new_assignee \o <<".">>

NowAssignedMsg(ticket_id, new_assignee) ==
    <<"T","i","c","k","e","t"," ">> \o int_to_str(ticket_id) \o <<" ","i","s"," ","n","o","w"," ","a","s","s","i","g","n","e","d"," ","t","o"," ">> \o new_assignee \o <<".">>

AssignedMsg(ticket_id, assigned_to) ==
    <<"T","i","c","k","e","t"," ">> \o int_to_str(ticket_id) \o <<" ","i","s"," ","a","s","s","i","g","n","e","d"," ","t","o"," ">> \o assigned_to \o <<".">>

SummaryMsg(ticket_id, t) ==
    <<"S","u","m","m","a","r","y"," ","o","f"," ","T","i","c","k","e","t"," ">> \o int_to_str(ticket_id) \o <<":","\n">>
        \o <<"T","i","t","l","e",":"," ">> \o t.title \o <<"\n">>
        \o <<"D","e","s","c","r","i","p","t","i","o","n",":"," ">> \o t.description \o <<"\n">>
        \o <<"S","t","a","t","u","s",":"," ">> \o t.status \o <<"\n">>
        \o <<"A","s","s","i","g","n","e","d"," ","t","o",":"," ">> \o t.assigned_to

FallbackMsg ==
    <<"S","o","r","r","y",","," ","I"," ","c","o","u","l","d","n","'","t"," ","u","n","d","e","r","s","t","a","n","d"," ","t","h","a","t"," ","q","u","e","r","y","."," ","T","r","y"," ","a","s","k","i","n","g"," ","a","b","o","u","t"," ","a"," ","t","i","c","k","e","t"," ","I","D",","," ","s","t","a","t","u","s",","," ","o","r"," ","a","s","s","i","g","n","m","e","n","t",".">>

-----------------------------------------------------------------------------
(* The tests and the dispatch of process_query *)

\* query = query.lower().strip()
normalize(raw) == str_strip(str_lower(raw))

\* The condition of case 1.
status_trigger(q) ==
    /\ str_contains(<<"t","i","c","k","e","t","s">>, q)
    /\ \/ str_contains(<<"o","p","e","n">>, q)
       \/ str_contains(<<"c","l","o","s","e","d">>, q)
       \/ str_contains(<<"p","e","n","d","i","n","g">>, q)

\* A faulty dispatch: the reassignment pattern is tried before the status test.
dispatch_assign_first(q) ==
    IF re_search_assign(q) # <<>> THEN 2
    ELSE IF status_trigger(q) THEN 1
    ELSE IF re_search_who(q) # <<>> THEN 3
    ELSE IF re_search_summary(q) # <<>> THEN 4
    ELSE 5

\* The case of the if-chain that answers the normalized query q: the first
\* whose condition holds, 5 being the fallback.
dispatch(q) ==
    IF status_trigger(q) THEN 1
    ELSE IF re_search_assign(q) # <<>> THEN 2
    ELSE IF re_search_who(q) # <<>> THEN 3
    ELSE IF re_search_summary(q) # <<>> THEN 4
    ELSE 5

\* A faulty comparison of the assignees: case-sensitive.
same_agent_exact(assigned_to, new_assignee) == assigned_to = new_assignee

\* ticket["assigned_to"].lower() == new_assignee.lower()
same_agent(assigned_to, new_assignee) == str_lower(assigned_to) = str_lower(new_assignee)

-----------------------------------------------------------------------------
(* The content of tickets.json at startup and the lines the user types. *)

Pool ==
    << json_object(<<"1">>, <<"L","o","g","i","n"," ","b","u","g">>, <<"C","a","n","n","o","t"," ","l","o","g"," ","i","n">>, <<"o","p","e","n">>, <<"A","l","i","c","e">>),
       json_object(<<"2">>, <<"C","r","a","s","h">>, <<"A","p","p"," ","c","r","a","s","h","e","s">>, <<"C","l","o","s","e","d">>, <<"b","o","b">>),
       json_object(<<"1","2">>, <<"S","l","o","w">>, <<"P","a","g","e"," ","i","s"," ","s","l","o","w">>, <<"P","E","N","D","I","N","G">>, <<"C","a","r","o","l">>) >>

\* Every file of at most MaxTickets objects of the pool, in any order, no
\* object twice (ticket ids are unique).
InitialFiles ==
    UNION { { [i \in 1..n |-> Pool[p[i]]] :
                p \in {f \in [1..n -> DOMAIN Pool] : \A a, b \in 1..n : a # b => f[a] # f[b]} }
            : n \in 0..MaxTickets }

Lines ==
    { <<"S","h","o","w"," ","m","e"," ","a","l","l"," ","o","p","e","n"," ","t","i","c","k","e","t","s",".">>,
      <<"c","l","o","s","e","d"," ","t","i","c","k","e","t","s">>,
      <<"l","i","s","t"," ","P","E","N","D","I","N","G"," ","t","i","c","k","e","t","s">>,
      <<"t","i","c","k","e","t","s",":"," ","p","e","n","d","i","n","g"," ","o","r"," ","o","p","e","n","?">>,
      <<"r","e","o","p","e","n","e","d"," ","t","i","c","k","e","t","s">>,
      <<"t","i","c","k","e","t","s">>,
      <<"a","s","s","i","g","n"," ","t","i","c","k","e","t"," ","1"," ","t","o"," ","B","o","b">>,
      <<"a","s","s","i","g","n"," ","1"," ","t","o"," ","b","o","b">>,
      <<"A","s","s","i","g","n"," ","t","i","c","k","e","t"," ","1"," ","t","o"," ","A","L","I","C","E">>,
      <<" "," ","a","s","s","i","g","n"," ","2"," ","t","i","c","k","e","t"," ","t","o"," ","c","a","r","o","l","\t">>,
      <<"a","s","s","i","g","n"," ","2"," ","t","o"," ","B","O","B">>,
      <<"a","s","s","i","g","n"," ","t","i","c","k","e","t"," ","0","1","2"," ","t","o"," ","b","o","b","-","s","m","i","t","h">>,
      <<"a","s","s","i","g","n"," ","t","i","c","k","e","t"," ","9"," ","t","o"," ","b","o","b">>,
      <<"a","s","s","i","g","n"," ","t","i","c","k","e","t"," ","1"," ","t","o"," ","b","o","b"," ","f","o","r"," ","t","h","e"," ","o","p","e","n"," ","t","i","c","k","e","t","s">>,
      <<"a","s","s","i","g","n"," ","2"," ","t","o"," ","a","l","i","c","e",","," ","w","h","o"," ","i","s"," ","w","o","r","k","i","n","g"," ","o","n"," ","t","i","c","k","e","t"," ","2">>,
      <<"a","s","s","i","g","n"," ","t","i","c","k","e","t"," ","t","w","o"," ","t","o"," ","b","o","b">>,
      <<"w","h","o"," ","i","s"," ","a","s","s","i","g","n","e","d"," ","t","o"," ","t","i","c","k","e","t"," ","1">>,
      <<"W","h","o"," ","i","s"," ","w","o","r","k","i","n","g"," ","o","n"," ","t","i","c","k","e","t"," ","2","?">>,
      <<"w","h","o"," ","i","s"," ","w","o","r","k","i","n","g"," ","o","n"," ","t","i","c","k","e","t"," ","9">>,
      <<"w","h","o"," ","i","s"," ","a","s","s","i","g","n","e","d"," ","t","o"," ","t","i","c","k","e","t"," ","1","2",","," ","s","u","m","m","a","r","i","z","e"," ","t","i","c","k","e","t"," ","1">>,
      <<"s","u","m","m","a","r","i","z","e"," ","t","i","c","k","e","t"," ","1">>,
      <<"s","u","m","m","a","r","i","z","e"," ","t","i","c","k","e","t"," ","9","9">>,
      <<"w","h","a","t","'","s"," ","t","h","e"," ","w","e","a","t","h","e","r">>,
      <<>>,
      <<"e","x","i","t">>,
      <<"Q","U","I","T">>,
      <<" ","e","x","i","t"," ">>,
      <<"q","u","i","t","\t">> }

\* For each line of the model, what process_query computes from the line
\* alone: the normalized query, the case that answers it and the matches of
\* the four searches (a table, so that each search is computed once).
parsed ==
    [raw \in Lines |->
        LET q == normalize(raw)
        IN  [query         |-> q,
             rule          |-> dispatch(q),
             status_match  |-> re_search_status(q),
             assign_match  |-> re_search_assign(q),
             who_match     |-> re_search_who(q),
             summary_match |-> re_search_summary(q)]]

\* The outcome of process_query(raw) on the list tks and the file fl: the case
\* taken, the string returned (<<>> when the call raised), the list and the
\* file after the call, whether the file was dumped, and the exception raised.
\* What depends on the line alone is read from `parsed`.
process_query(raw, tks, fl, writable) ==
    LET c == parsed[raw].rule
        Return(text) ==
            [rule |-> c, response |-> text, tickets |-> tks, file |-> fl,
             wrote |-> FALSE, raised |-> "none"]
    IN  CASE c = 1 ->
                LET status  == parsed[raw].status_match
                    results == list_tickets_by_status(tks, status)
                IN  IF status # <<>>
                    THEN IF results = <<>>
                         THEN Return(NoTicketsMsg(status))
                         ELSE Return(str_join([k \in DOMAIN results |-> TicketLine(results[k])]))
                    ELSE Return(ValidStatusMsg)
          [] c = 2 ->
                LET m            == parsed[raw].assign_match
                    ticket_id    == str_to_int(m[1])
                    new_assignee == str_capitalize(m[2])
                    i            == get_ticket_by_id(tks, ticket_id)
                    u            == update_ticket_assignment(tks, fl, ticket_id, new_assignee, writable)
                IN  IF i = 0 THEN Return(NotFoundMsg(ticket_id))
                    ELSE IF same_agent(tks[i].assigned_to, new_assignee)
                    THEN Return(AlreadyAssignedMsg(ticket_id, new_assignee))
                    ELSE [rule |-> c,
                          response |-> IF u.raised = "none"
                                       THEN NowAssignedMsg(ticket_id, new_assignee) ELSE <<>>,
                          tickets |-> u.tickets, file |-> u.file,
                          wrote |-> u.wrote, raised |-> u.raised]
          [] c = 3 ->
                LET ticket_id == str_to_int(parsed[raw].who_match[1])
                    i         == get_ticket_by_id(tks, ticket_id)
                IN  IF i = 0 THEN Return(NotFoundMsg(ticket_id))
                    ELSE Return(AssignedMsg(ticket_id, tks[i].assigned_to))
          [] c = 4 ->
                LET ticket_id == str_to_int(parsed[raw].summary_match[1])
                    i         == get_ticket_by_id(tks, ticket_id)
                IN  IF i = 0 THEN Return(NotFoundMsg(ticket_id))
                    ELSE Return(SummaryMsg(ticket_id, tks[i]))
          [] OTHER -> Return(FallbackMsg)

-----------------------------------------------------------------------------
(* main() *)

Sentinels == { <<"e","x","i","t">>, <<"q","u","i","t">> }

\* The lines for which `query.lower() in ['exit', 'quit']` holds.
SentinelLines == {line \in Lines : str_lower(line) \in Sentinels}

Init ==
    /\ file \in InitialFiles
    /\ tickets = json_load(file)
    /\ loaded = tickets
    /\ state = "Running"
    /\ raised = "none"
    /\ query = <<>>
    /\ rule = 0
    /\ response = <<>>
    /\ farewell = FALSE
    /\ wrote = FALSE

\* input() returned `line` and line.lower() is 'exit' or 'quit': goodbye, break.
Exit(line) ==
    /\ state = "Running"
    /\ line \in SentinelLines
    /\ state' = "Terminated"
    /\ farewell' = TRUE
    /\ query' = line
    /\ rule' = 0
    /\ response' = <<>>
    /\ raised' = "none"
    /\ wrote' = FALSE
    /\ UNCHANGED <<file, tickets, loaded>>

\* input() returned `line`, which goes to process_query; its response is
\* printed, unless it raised: nothing catches the exception and main() ends.
Ask(line, writable) ==
    /\ state = "Running"
    /\ line \notin SentinelLines
    /\ \E r \in {process_query(line, tickets, file, writable)} :
           /\ query' = line
           /\ rule' = r.rule
           /\ response' = r.response
           /\ tickets' = r.tickets
           /\ file' = r.file
           /\ wrote' = r.wrote
           /\ raised' = r.raised
           /\ state' = IF r.raised = "none" THEN "Running" ELSE "Crashed"
    /\ UNCHANGED <<loaded, farewell>>

\* input() raised EOFError at the end of the input; nothing catches it.
EndOfInput ==
    /\ state = "Running"
    /\ state' = "Crashed"
    /\ raised' = "EOFError"
    /\ rule' = 0
    /\ response' = <<>>
    /\ wrote' = FALSE
    /\ UNCHANGED <<file, tickets, loaded, query, farewell>>

Next ==
    \/ \E line \in Lines : Exit(line)
    \/ \E line \in Lines, writable \in BOOLEAN : Ask(line, writable)
    \/ EndOfInput

Spec == Init /\ [][Next]_vars

-----------------------------------------------------------------------------
(* Properties.  `rule # 0` says that the last step passed the line `query` *)
(* to process_query; `parsed[query]` is what process_query read from it.   *)

HasTicket(tks, n) == \E i \in DOMAIN tks : tks[i].ticket_id = n

\* The ticket id captured from a line answered by case 2, 3 or 4.
QueryTicketId(line, r) ==
    CASE r = 2 -> str_to_int(parsed[line].assign_match[1])
      [] r = 3 -> str_to_int(parsed[line].who_match[1])
      [] r = 4 -> str_to_int(parsed[line].summary_match[1])

\* The assignee named by a line answered by case 2, capitalized.
QueryAssignee(line) == str_capitalize(parsed[line].assign_match[2])

SameButAssignee(a, b) ==
    /\ a.ticket_id = b.ticket_id
    /\ a.title = b.title
    /\ a.description = b.description
    /\ a.status = b.status

\* C1: after any sequence of queries the list holds the loaded tickets in the
\* loaded order, each with its loaded ticket_id, title, description and status;
\* a step changes a ticket only if it is a reassignment (case 2) of that
\* ticket's id, and then no other ticket changes.
C1_OnlyAssigneeChanges ==
    /\ [](/\ Len(tickets) = Len(loaded)
          /\ \A i \in DOMAIN tickets : SameButAssignee(tickets[i], loaded[i]))
    /\ [][\A i \in DOMAIN tickets :
            tickets'[i] # tickets[i] =>
                /\ rule' = 2
                /\ tickets[i].ticket_id = QueryTicketId(query', 2)
                /\ tickets'[i].assigned_to = QueryAssignee(query')
                /\ \A j \in DOMAIN tickets : j # i => tickets'[j] = tickets[j]]_vars

C1_Witness ==
    /\ rule = 2
    /\ wrote
    /\ Len(tickets) >= 2
    /\ \E i \in DOMAIN tickets : tickets[i].assigned_to # loaded[i].assigned_to

\* C2: when a reassignment went through (process_query answered "is now
\* assigned to"), tickets.json holds the dump of the whole list, and loading
\* it again gives the list in memory.
C2_RoundTrip ==
    (/\ rule = 2
     /\ response = NowAssignedMsg(QueryTicketId(query, 2), QueryAssignee(query)))
        => /\ wrote
           /\ file = json_dump(tickets)
           /\ json_load(file) = tickets

C2_Witness ==
    /\ rule = 2
    /\ wrote
    /\ Len(tickets) >= 2
    /\ response = NowAssignedMsg(12, <<"B","o","b">>)
    /\ json_load(file) # loaded

\* C3: a reassignment line whose id exists and whose name equals the current
\* assignee ignoring case is answered "Ticket {id} is already assigned to
\* {Name}." with the capitalized name; the file is not written and neither
\* the list nor the file changes.
C3_AlreadyAssigned ==
    [][(/\ rule' = 2
        /\ \E i \in DOMAIN tickets :
             /\ tickets[i].ticket_id = QueryTicketId(query', 2)
             /\ \A j \in 1..(i - 1) : tickets[j].ticket_id # QueryTicketId(query', 2)
             /\ str_lower(tickets[i].assigned_to) = str_lower(parsed[query'].assign_match[2]))
        => /\ response' = AlreadyAssignedMsg(QueryTicketId(query', 2), QueryAssignee(query'))
           /\ ~wrote'
           /\ raised' = "none"
           /\ tickets' = tickets
           /\ file' = file]_vars

C3_Witness ==
    /\ rule = 2
    /\ response = AlreadyAssignedMsg(2, <<"B","o","b">>)
    /\ \E i \in DOMAIN tickets : tickets[i].ticket_id = 2 /\ tickets[i].assigned_to = <<"b","o","b">>

\* C4: a line answered by case 2, 3 or 4 whose id is the id of no ticket is
\* answered "Ticket {id} not found.", without a write and without a change
\* of the list; and that answer is given only when no ticket has the id.
C4_NotFound ==
    [][rule' \in {2, 3, 4} =>
        /\ ~HasTicket(tickets, QueryTicketId(query', rule')) =>
              /\ response' = NotFoundMsg(QueryTicketId(query', rule'))
              /\ ~wrote'
              /\ raised' = "none"
              /\ tickets' = tickets
              /\ file' = file
        /\ response' = NotFoundMsg(QueryTicketId(query', rule')) =>
              ~HasTicket(tickets, QueryTicketId(query', rule'))]_vars

C4_Witness ==
    /\ rule = 3
    /\ response = NotFoundMsg(9)
    /\ Len(tickets) >= 2

StatusKeywords == { <<"o","p","e","n">>, <<"c","l","o","s","e","d">>, <<"p","e","n","d","i","n","g">> }

\* The position of the first occurrence of keyword k in q.
FirstPos(k, q) == Min({i \in DOMAIN q : StartsWithAt(q, i, k)})

\* The status keyword that occurs first in q (q has one).
FirstKeyword(q) ==
    LET occurring == {k \in StatusKeywords : str_contains(k, q)}
    IN  CHOOSE k \in occurring : \A k2 \in occurring : FirstPos(k, q) <= FirstPos(k2, q)

\* The lines of the tickets from position i on whose status is kw ignoring case.
RECURSIVE ListingFrom(_, _, _)
ListingFrom(tks, kw, i) ==
    IF i > Len(tks) THEN <<>>
    ELSE (IF str_lower(tks[i].status) = kw THEN <<TicketLine(tks[i])>> ELSE <<>>)
            \o ListingFrom(tks, kw, i + 1)

C6_Total ==
    rule # 0 =>
        /\ rule \in 1..5
        /\ raised = "none"
        /\ state = "Running"
        /\ response # <<>>

\* C7: the loop leaves Running for Terminated exactly when the line, trimmed
\* and lower-cased, is "exit" or "quit", printing the goodbye without a call
\* of process_query; every other line is answered and the loop stays Running.
C7_Loop ==
    [][state = "Running" /\ raised' = "none" =>
        /\ state' = "Terminated" <=> str_strip(str_lower(query')) \in Sentinels
        /\ state' = "Terminated" => farewell' /\ rule' = 0
        /\ state' # "Terminated" => state' = "Running" /\ rule' \in 1..5 /\ response' # <<>>]_vars

\* C8: when tickets.json cannot be written during a reassignment, the loop
\* stays Running and the line is answered, not with "is now assigned to".
C8_WriteFailureSurfaced ==
    raised = "OSError" =>
        /\ state = "Running"
        /\ response # <<>>
        /\ response # NowAssignedMsg(QueryTicketId(query, 2), QueryAssignee(query))

\* C9: at the end of the input the process terminates normally, as on a
\* sentinel, not through an exception that nothing handles.
C9_EndOfInputTerminates == raised = "EOFError" => state = "Terminated"

\* Whether the normalized query q satisfies the condition of case k (1..4).
Trigger(k, q) ==
    CASE k = 1 -> status_trigger(q)
      [] k = 2 -> re_search_assign(q) # <<>>
      [] k = 3 -> re_search_who(q) # <<>>
      [] k = 4 -> re_search_summary(q) # <<>>

\* C10 as stated: no query satisfies the condition of more than one of the
\* cases 1-4, and a query with a reassignment pattern is answered by case 2.
C10_MutuallyExclusive ==
    rule # 0 =>
        /\ Cardinality({k \in 1..4 : Trigger(k, parsed[query].query)}) <= 1
        /\ Trigger(2, parsed[query].query) => rule = 2

\* C10 amended: a query may satisfy the conditions of several of the cases
\* 1-4; it is answered by the first of them in the order 1, 2, 3, 4 (by the
\* fallback if there is none), so a query with a reassignment pattern is
\* answered by case 2 unless it satisfies the status test, and then nothing is
\* reassigned.
C10_FirstMatchWins ==
    /\ [](rule # 0 =>
            LET satisfied == {k \in 1..4 : Trigger(k, parsed[query].query)}
            IN  rule = IF satisfied = {} THEN 5 ELSE Min(satisfied))
    /\ [][rule' # 0 /\ Trigger(1, parsed[query'].query) /\ Trigger(2, parsed[query'].query) =>
            /\ response' # <<>>
            /\ ~wrote'
            /\ tickets' = tickets
            /\ file' = file]_vars

C10_Witness ==
    /\ rule = 1
    /\ Trigger(2, parsed[query].query)
    /\ HasTicket(tickets, 1)
    /\ response = <<"T","i","c","k","e","t","s"," ","1",":"," ","L","o","g","i","n"," ","b","u","g"," ","(","A","s","s","i","g","n","e","d"," ","t","o"," ","A","l","i","c","e",")">>

=============================================================================
